---- MODULE Spec2Model ----
(***************************************************************************)
(* Dictation: the planetary resource / population simulation (planet.ts),  *)
(* the game driver and its commands (game.ts) and the trade ledger.        *)
(*                                                                         *)
(* Numbers.  A JavaScript number that holds a resource amount, a rate or a *)
(* score is a fixed-point integer counting thousandths (SCALE), or one of  *)
(* the three non-finite values NaN, PInf, NInf.  The arithmetic operators  *)
(* below follow the IEEE rules the JavaScript operators follow for the     *)
(* non-finite values and for division by zero; a finite result is rounded  *)
(* to the nearest thousandth.  Orbital distances are whole numbers, and an *)
(* orbital angle counts quarter turns (TwoPi quarter turns per revolution).*)
(***************************************************************************)
EXTENDS Integers, Sequences, FiniteSets

(***************************************************************************)
(* Bounds of the model.                                                    *)
(***************************************************************************)
MaxDay == 4
MaxTransfers == 1

(***************************************************************************)
(* The number type.                                                        *)
(***************************************************************************)
SCALE == 10 * 10 * 10
MICRO == SCALE * SCALE
NaN == 2 * MICRO * SCALE
PInf == NaN - 1
NInf == 0 - PInf

IsFinite(a) == a # NaN /\ a # PInf /\ a # NInf

Abs(a) == IF a < 0 THEN 0 - a ELSE a

\* sign of a finite or infinite number, as -1, 0 or 1
Sgn(a) == IF a < 0 THEN 0 - 1 ELSE IF a > 0 THEN 1 ELSE 0

\* the integer nearest to a / b (b # 0), halves away from zero
RoundDiv(a, b) == Sgn(a) * Sgn(b) * ((2 * Abs(a) + Abs(b)) \div (2 * Abs(b)))

RECURSIVE Isqrt(_)
\* floor of the square root of a natural number
Isqrt(n) == IF n < 2 THEN n
            ELSE LET s == 2 * Isqrt(n \div 4)
                 IN  IF (s + 1) * (s + 1) <= n THEN s + 1 ELSE s

\* a + b
NAdd(a, b) == IF a = NaN \/ b = NaN THEN NaN
              ELSE IF a = PInf THEN (IF b = NInf THEN NaN ELSE PInf)
              ELSE IF a = NInf THEN (IF b = PInf THEN NaN ELSE NInf)
              ELSE IF b = PInf \/ b = NInf THEN b
              ELSE a + b

\* -a
NNeg(a) == IF a = NaN THEN NaN ELSE 0 - a

\* a - b
NSub(a, b) == NAdd(a, NNeg(b))

\* a * b / den for finite a, b with the product rounded; IEEE otherwise
NMulRaw(a, b, den) == IF a = NaN \/ b = NaN THEN NaN
                      ELSE IF ~IsFinite(a) \/ ~IsFinite(b)
                           THEN (IF a = 0 \/ b = 0 THEN NaN
                                 ELSE IF Sgn(a) * Sgn(b) > 0 THEN PInf ELSE NInf)
                      ELSE RoundDiv(a * b, den)

\* a * b of two fixed-point numbers
NMul(a, b) == NMulRaw(a, b, SCALE)

\* a / b of two fixed-point numbers: x/0 is an infinity, 0/0 is NaN
NDiv(a, b) == IF a = NaN \/ b = NaN THEN NaN
              ELSE IF ~IsFinite(a)
                   THEN (IF ~IsFinite(b) THEN NaN
                         ELSE IF Sgn(a) * (IF b < 0 THEN 0 - 1 ELSE 1) > 0
                              THEN PInf ELSE NInf)
              ELSE IF ~IsFinite(b) THEN 0
              ELSE IF b = 0
                   THEN (IF a = 0 THEN NaN ELSE IF a > 0 THEN PInf ELSE NInf)
              ELSE RoundDiv(a * SCALE, b)

\* a / n for a whole number n # 0
NDivInt(a, n) == IF IsFinite(a) THEN RoundDiv(a, n)
                 ELSE IF a = NaN THEN NaN
                 ELSE IF n > 0 THEN a ELSE NNeg(a)

\* a < b: false when either side is NaN
NLt(a, b) == a # NaN /\ b # NaN /\ a < b

\* Math.min, Math.max: NaN when either argument is NaN
NMin(a, b) == IF a = NaN \/ b = NaN THEN NaN ELSE IF a < b THEN a ELSE b
NMax(a, b) == IF a = NaN \/ b = NaN THEN NaN ELSE IF a > b THEN a ELSE b

\* Math.sqrt: NaN for a negative argument
NSqrt(a) == IF a = NaN \/ a < 0 THEN NaN
            ELSE IF a = PInf THEN PInf
            ELSE Isqrt(a * SCALE)

\* Math.sign, as a fixed-point number
NSign(a) == IF a = NaN THEN NaN ELSE Sgn(a) * SCALE

\* Math.round: to the nearest whole number, halves towards +infinity
NRound(a) == IF ~IsFinite(a) THEN a ELSE ((a + SCALE \div 2) \div SCALE) * SCALE

(***************************************************************************)
(* sim.ts: the tuning constants.  gainFactor, the thirst and hunger        *)
(* factors and the die-off rates count thousandths; sim_birthRate and      *)
(* transferFactor count millionths.                                        *)
(***************************************************************************)
gainFactor == 1
sim_birthRate == 1050
thirstFactor == 500
quenchDieOff == 250
hungerFactor == 500
hungerDieOff == 250
transferFactor == 2

(***************************************************************************)
(* planet.ts: resources.                                                   *)
(***************************************************************************)
ResNames == <<"water", "food", "energy", "population">>

zeroRes == [water |-> 0, food |-> 0, energy |-> 0, population |-> 0]

invert(res) == [r \in DOMAIN res |-> NNeg(res[r])]

\* a resource vector from whole numbers
Res(w, f, e, p) ==
    [water |-> w * SCALE, food |-> f * SCALE, energy |-> e * SCALE,
     population |-> p * SCALE]

(***************************************************************************)
(* setup.ts: the configuration of the solar system.  PlanetOrder is the    *)
(* order in which Object.values(this.planets) lists the planets.  A planet *)
(* starts with a population drawn by Init from InitPops.                   *)
(***************************************************************************)
PlanetOrder == <<"earth", "mars">>
PlanetNames == {PlanetOrder[i] : i \in DOMAIN PlanetOrder}

refStd == Res(2, 2, 3, 1)

InitPops == [earth |-> {0, 3}, mars |-> {0, 2}]

setup_planets(pops) ==
    [earth |-> [gravity |-> 1, distance |-> 10000, period |-> 4, theta |-> 0,
                initResources |-> Res(50, 50, 50, pops.earth)],
     mars  |-> [gravity |-> 1, distance |-> 20000, period |-> 2, theta |-> 0,
                initResources |-> Res(30, 30, 30, pops.mars)]]

earthAvailable(pops) == Res(10, 10, 10, pops.earth)

(***************************************************************************)
(* planet.ts: class Planet.  A planet is a record; a method that changes   *)
(* the planet is an operator from the planet to the changed planet (and    *)
(* the value the method returns).                                          *)
(***************************************************************************)
TwoPi == 4

\* new Planet(name, state)
Planet(name, state) ==
    [name |-> name,
     info |-> state,
     raw |-> state.initResources,
     available |-> [water |-> 0, food |-> 0, energy |-> 0,
                    population |-> state.initResources.population],
     rate |-> zeroRes,
     qolRate |-> 0]

\* export const refPlanet, with Object.assign(refPlanet.available, setup.refStd)
refPlanetInit ==
    [Planet("Reference", [distance |-> 1, gravity |-> 1, period |-> 1, theta |-> 1,
                          initResources |-> refStd])
     EXCEPT !.available = refStd]

VARIABLES
    planets,     \* Game.planets: name -> Planet
    refPlanet,   \* the module-level reference planet
    trade,       \* Game.trade: the registered transfers, in order
    qolScore,    \* Game.qolScore
    currentDay,  \* Game.currentDay
    gameOver,    \* Game.gameOver
    pc,          \* where Game.play / Game.forward / Game.update stands
    fwd,         \* the locals of the running Game.forward
    upd,         \* the locals of the running Game.update
    out,         \* what the last operation wrote on the terminal
    zeroDiv,     \* history: the divisions by zero the last Planet.step performed
    day0,        \* history: planets and qolScore when the running update() began
    fwd0         \* history: the day, the liveness and the argument at the call of
                 \* the running (or game-ending) forward()

vars == <<planets, refPlanet, trade, qolScore, currentDay, gameOver, pc, fwd, upd,
          out, zeroDiv, day0, fwd0>>

\* get dead
dead(p) == p.available.population = 0

\* abundance(resName)
abundance(p, resName) == NDiv(p.raw[resName], p.info.initResources[resName])

\* get waterPerCapita, foodPerCapita, energyPerCapita
waterPerCapita(p) == NDiv(p.available.water, p.available.population)
foodPerCapita(p) == NDiv(p.available.food, p.available.population)
energyPerCapita(p) == NDiv(p.available.energy, p.available.population)

\* the required consumption mu computes for a planet
reqAmt(p, resName) == NMul(p.available.population, waterPerCapita(refPlanet))

\* the amount mu(resName) mines
mining(p, resName) ==
    NMin(p.raw[resName],
         NMul(NMul(reqAmt(p, resName), SCALE + gainFactor), abundance(p, resName)))

\* mu(resName) once the required and the mined amounts are known
muWith(p, resName, req, mined) ==
    [planet |-> [p EXCEPT !.raw[resName] = NSub(@, mined),
                          !.available[resName] = NMax(0, NAdd(@, NSub(mined, req)))],
     ret |-> IF p.available[resName] = 0 THEN 0
             ELSE NDiv(NSub(mined, req), p.available[resName])]

\* mu(resName): the planet after the call, and the value returned
mu(p, resName) == muWith(p, resName, reqAmt(p, resName), mining(p, resName))

\* get quench, get fullness
quench(p) ==
    NSub(NSqrt(NDiv(waterPerCapita(p), waterPerCapita(refPlanet))), thirstFactor)
fullness(p) ==
    NSub(NSqrt(NDiv(foodPerCapita(p), foodPerCapita(refPlanet))), hungerFactor)

\* get qolPerCapita
qolPerCapita(p) ==
    IF p.available.population = 0 THEN 0 ELSE NAdd(quench(p), fullness(p))

\* get productivity
productivity(p) == NDiv(qolPerCapita(p), qolPerCapita(refPlanet))

\* Math.sign(prod) * prod ** 2 * sim.birthRate
growth(prod) == NMulRaw(NMul(NSign(prod), NMul(prod, prod)), sim_birthRate, MICRO)

\* get birthRate
birthRate(p) ==
    IF NLt(quench(p), 0) THEN 0 - quenchDieOff
    ELSE IF NLt(fullness(p), 0) THEN 0 - hungerDieOff
    ELSE growth(productivity(p))

\* birth(), statement by statement
birthSubtract(p) == [p EXCEPT !.available.population = NSub(@, SCALE)]
birthMultiply(p) == [p EXCEPT !.available.population = NMul(@, NAdd(SCALE, birthRate(p)))]
birthRound(p) == [p EXCEPT !.available.population = NRound(@)]
birthReturn(p) == [planet |-> p, ret |-> birthRate(p)]

\* birth(): the planet after the call, and the value returned
birth(p) == birthReturn(birthRound(birthMultiply(birthSubtract(p))))

\* get totalQol
totalQol(p) == NMul(qolPerCapita(p), p.available.population)

\* cosine and sine of an angle counted in quarter turns
Cos(t) == CASE t = 0 -> 1 [] t = 1 -> 0 [] t = 2 -> 0 - 1 [] OTHER -> 0
Sin(t) == CASE t = 0 -> 0 [] t = 1 -> 1 [] t = 2 -> 0 [] OTHER -> 0 - 1

\* get x, get y
x(p) == p.info.distance * Cos(p.info.theta)
y(p) == p.info.distance * Sin(p.info.theta)

\* the length of the vector (dx, dy)
hypot(dx, dy) == Isqrt(dx * dx + dy * dy)

\* distance(planet)
distance(p, planet) == hypot(x(planet) - x(p), y(planet) - y(p))

\* this.rate[resName] = <the value a call returned>
withRate(called, resName) == [called.planet EXCEPT !.rate[resName] = called.ret]

\* the rotation of step()
rotate(p) == [p EXCEPT !.info.theta = (@ + TwoPi \div p.info.period) % TwoPi]

\* this.qolRate = this.totalQol / oldQol - 1
withQolRate(p, oldQol) == [p EXCEPT !.qolRate = NSub(NDiv(totalQol(p), oldQol), SCALE)]

\* the resource updates of step()
stepResources(p) ==
    withRate(mu(withRate(mu(withRate(mu(p, "water"), "water"), "food"), "food"),
                "energy"), "energy")

\* step() without its test of the population
step_noDeadTest(p) ==
    withQolRate(rotate(withRate(birth(stepResources(p)), "population")), totalQol(p))

\* step()
step(p) ==
    IF p.available.population = 0 THEN p
    ELSE withQolRate(rotate(withRate(birth(stepResources(p)), "population")),
                     totalQol(p))

\* The divisions by zero one step() of p performs: the per-capita getters read
\* by birthRate inside birth() (once after the subtraction of one individual,
\* once for the returned rate) and the division by the old total QOL.
stepZeroDiv(p) ==
    IF p.available.population = 0 THEN {}
    ELSE (IF dead(birthSubtract(stepResources(p))) THEN {"birth:birthRate"} ELSE {})
         \cup (IF dead(birth(stepResources(p)).planet) THEN {"birth:return"} ELSE {})
         \cup (IF totalQol(p) = 0 THEN {"step:qolRate"} ELSE {})

(***************************************************************************)
(* transfer.ts: class Transfer and class Trade, the ledger.                *)
(***************************************************************************)
DaysPerYear == 365

\* new Transfer(fromP, toP, amts): the planets are held by name
Transfer(fromP, toP, amts) == [from |-> fromP, to |-> toP, amts |-> amts]

\* Trade.applyTransfer(transfer) registering an equal transfer only once
applyTransfer_idempotent(ledger, transfer) ==
    IF \E i \in DOMAIN ledger : ledger[i] = transfer THEN ledger
    ELSE Append(ledger, transfer)

\* Trade.applyTransfer(transfer)
applyTransfer(ledger, transfer) == Append(ledger, transfer)

\* one day of one transfer for one resource with the loss credited back to the
\* source
moveAmt_refundsLoss(ps, t, r, daily, loss) ==
    [[ps EXCEPT ![t.from].available[r] = NSub(@, NSub(daily, loss))]
        EXCEPT ![t.to].available[r] = NAdd(@, NSub(daily, loss))]

\* one day of one transfer for one resource, for the daily amount and the loss:
\* the amount leaves the source whatever the source holds, the destination
\* receives it less the loss
moveAmt(ps, t, r, daily, loss) ==
    [[ps EXCEPT ![t.from].available[r] = NSub(@, daily)]
        EXCEPT ![t.to].available[r] = NAdd(@, NSub(daily, loss))]

\* the loss of a daily amount over a distance
transferLoss(daily, dist) == NMulRaw(daily, transferFactor * dist, MICRO)

\* the amount of a resource a transfer moves in one day
dailyAmt(t, r) == NDivInt(t.amts[r], DaysPerYear)

moveRes(ps, t, r) ==
    moveAmt(ps, t, r, dailyAmt(t, r),
            transferLoss(dailyAmt(t, r), distance(ps[t.from], ps[t.to])))

RECURSIVE moveAll(_, _, _)
\* one day of one transfer: every resource from index i on
moveAll(ps, t, i) ==
    IF i > Len(ResNames) THEN ps ELSE moveAll(moveRes(ps, t, ResNames[i]), t, i + 1)

RECURSIVE tradeForward(_, _, _)
\* Trade.forward(): every registered transfer from index i on, in order
tradeForward(ps, ledger, i) ==
    IF i > Len(ledger) THEN ps ELSE tradeForward(moveAll(ps, ledger[i], 1), ledger, i + 1)

RECURSIVE getTransferFrom(_, _, _, _)
\* Trade.getTransfer(a, b): the sum of the transfers registered from a to b
getTransferFrom(ledger, a, b, i) ==
    IF i > Len(ledger) THEN zeroRes
    ELSE LET rest == getTransferFrom(ledger, a, b, i + 1)
         IN  IF ledger[i].from = a /\ ledger[i].to = b
             THEN [r \in DOMAIN zeroRes |-> NAdd(ledger[i].amts[r], rest[r])]
             ELSE rest
getTransfer(ledger, a, b) == getTransferFrom(ledger, a, b, 1)

(***************************************************************************)
(* game.ts: class Game.                                                    *)
(***************************************************************************)
\* Number(s) for the tokens a player types: NaN for what is not a number
NumberOf(s) ==
    CASE s = "365" -> 365 * SCALE
      [] s = "-365" -> 0 - 365 * SCALE
      [] s = "20" -> 20 * SCALE
      [] s = "10" -> 10 * SCALE
      [] s = "0" -> 0
      [] s = "-10" -> 0 - 10 * SCALE
      [] OTHER -> NaN

\* the tokens the commands of the model are typed with
DayTokens == {"10", "20", "0", "-10", "abc"}
AmountTokens == {"365", "abc"}
ResTokens == {"water", "population", "gold"}
PlanetTokens == {"earth", "mars", "pluto"}

\* the default of forward's parameter visPer (milliseconds)
visPer == 100

\* the bound on the simulation steps a fast-forward that owes days may idle
MaxIdle == 2

fwdIdle == [dps |-> 0, queue |-> 0, abort |-> FALSE, overslept |-> FALSE]
updIdle == [i |-> 0, someAlive |-> FALSE]
fwd0Idle == [startDay |-> 0, allDead |-> FALSE, dps |-> 0]

\* Number.MAX_SAFE_INTEGER: the largest finite number of the model
MAX_SAFE_INTEGER == PInf - 1

\* the constructor of Game, for the populations pops
\* the planets as the constructor of Planet alone leaves them, without the
\* starting stock of Earth
gamePlanets_noEarthStock(pops) ==
    [name \in PlanetNames |-> Planet(name, setup_planets(pops)[name])]

gamePlanets(pops) ==
    [name \in PlanetNames |->
        IF name = "earth"
        THEN [Planet(name, setup_planets(pops)[name])
              EXCEPT !.available = earthAvailable(pops)]
        ELSE Planet(name, setup_planets(pops)[name])]

Init ==
    /\ \E pe \in InitPops.earth, pm \in InitPops.mars :
          planets = gamePlanets([earth |-> pe, mars |-> pm])
    /\ refPlanet = refPlanetInit
    /\ trade = <<>>
    /\ qolScore = 0
    /\ currentDay = 0
    /\ gameOver = FALSE
    /\ pc = "start"
    /\ fwd = fwdIdle
    /\ upd = updIdle
    /\ out = "intro"
    /\ zeroDiv = {}
    /\ day0 = [planets |-> planets, qolScore |-> 0]
    /\ fwd0 = fwd0Idle

\* play(): the key S starts the command loop
PressS ==
    /\ pc = "start"
    /\ pc' = "prompt"
    /\ gameOver' = FALSE
    /\ out' = "prompt"
    /\ UNCHANGED <<planets, refPlanet, trade, qolScore, currentDay, fwd, upd, zeroDiv,
                   day0, fwd0>>

\* the commands "", "help" and a command that is not registered
CmdOther(c) ==
    /\ pc = "prompt"
    /\ out' = (IF c = "" THEN "nothing" ELSE IF c = "help" THEN "help" ELSE "commands")
    /\ UNCHANGED <<planets, refPlanet, trade, qolScore, currentDay, gameOver, pc, fwd,
                   upd, zeroDiv, day0, fwd0>>

\* the command "check <planet> [planetTo]"; a1 = "" stands for no second name
CmdCheck(a0, a1) ==
    /\ pc = "prompt"
    /\ out' = IF a0 \notin PlanetNames \/ (a1 # "" /\ a1 \notin PlanetNames)
              THEN "list_planets"
              ELSE IF a1 = "" THEN "status" ELSE "status_transfers"
    /\ UNCHANGED <<planets, refPlanet, trade, qolScore, currentDay, gameOver, pc, fwd,
                   upd, zeroDiv, day0, fwd0>>

\* transfer(resource, amount, fromP, toP)
transfer(ledger, resource, amount, fromP, toP) ==
    applyTransfer(ledger, Transfer(fromP, toP, [zeroRes EXCEPT ![resource] = amount]))

\* the command "transfer <res> <amt> <from> <to>"
CmdTransfer(res, amtTok, a2, a3) ==
    /\ pc = "prompt"
    /\ Len(trade) < MaxTransfers
    /\ IF res \notin DOMAIN refStd
       THEN out' = "list_resources" /\ trade' = trade
       ELSE IF a2 \notin PlanetNames \/ a3 \notin PlanetNames
       THEN out' = "list_planets" /\ trade' = trade
       ELSE /\ out' = "transfer_set"
            /\ trade' = transfer(trade, res, NumberOf(amtTok), a2, a3)
    /\ UNCHANGED <<planets, refPlanet, qolScore, currentDay, gameOver, pc, fwd, upd,
                   zeroDiv, day0, fwd0>>

\* forward(dps, visPer) throws on its arguments
forwardThrows(dps, vp) ==
    \/ ~NLt(0, dps) /\ ~NLt(dps, MAX_SAFE_INTEGER)
    \/ ~(0 < vp)

\* every planet is dead
allDead(ps) == \A n \in PlanetNames : dead(ps[n])

\* the command "forward <years>": the handler and forward() up to its first await
CmdForward(tok) ==
    /\ pc = "prompt"
    /\ IF NumberOf(tok) = NaN
       THEN out' = "not_a_number" /\ pc' = pc /\ fwd' = fwd /\ fwd0' = fwd0
       ELSE IF forwardThrows(NumberOf(tok), visPer)
       THEN out' = "out_of_bounds" /\ pc' = "crashed" /\ fwd' = fwd /\ fwd0' = fwd0
       ELSE /\ out' = "clear"
            /\ pc' = "fwd_clear"
            /\ fwd' = [dps |-> NumberOf(tok), queue |-> 0, abort |-> FALSE,
                       overslept |-> FALSE]
            /\ fwd0' = [startDay |-> currentDay, allDead |-> allDead(planets),
                        dps |-> NumberOf(tok)]
    /\ UNCHANGED <<planets, refPlanet, trade, qolScore, currentDay, gameOver, upd,
                   zeroDiv, day0>>

\* where forward() goes after the test of its for loop
forTest(f) == IF f.queue >= SCALE /\ ~f.overslept THEN "fwd_imm" ELSE "fwd_sleep"

\* the test of the while loop of forward() not looking at abort
FwdWhile_noAbortTest ==
    /\ \/ pc = "fwd_clear"
       \/ pc = "fwd_sleep" /\ fwd.overslept
    /\ pc' = "fwd_body" /\ fwd' = fwd /\ fwd0' = fwd0
    /\ UNCHANGED <<planets, refPlanet, trade, qolScore, currentDay, gameOver, upd, out,
                   zeroDiv, day0>>

\* forward(): the test of while (!abort), after await clear and after await sp
FwdWhile ==
    /\ \/ pc = "fwd_clear"
       \/ pc = "fwd_sleep" /\ fwd.overslept
    /\ IF fwd.abort
       THEN pc' = "prompt" /\ fwd' = fwdIdle /\ fwd0' = fwd0Idle
       ELSE pc' = "fwd_body" /\ fwd' = fwd /\ fwd0' = fwd0
    /\ UNCHANGED <<planets, refPlanet, trade, qolScore, currentDay, gameOver, upd, out,
                   zeroDiv, day0>>

\* the queue of forward() after "if (queue < 1) queue += (dps * visPer) / 1000"
queueAdd(f) ==
    IF f.queue < SCALE THEN f.queue + RoundDiv(f.dps * visPer, 1000) ELSE f.queue

\* forward(): the body of the while loop up to the first test of the for loop
FwdBody ==
    /\ pc = "fwd_body"
    /\ fwd.queue > 0 - MaxIdle * SCALE
    /\ fwd' = [fwd EXCEPT !.overslept = FALSE, !.queue = queueAdd(fwd)]
    /\ pc' = forTest(fwd')
    /\ out' = "summary"
    /\ UNCHANGED <<planets, refPlanet, trade, qolScore, currentDay, gameOver, upd,
                   zeroDiv, day0, fwd0>>

\* the timer of sleep(visPer) firing in the middle of update() as well
TimerFire_duringUpdate ==
    /\ pc \in {"fwd_imm", "fwd_sleep", "upd"}
    /\ ~fwd.overslept
    /\ fwd' = [fwd EXCEPT !.overslept = TRUE]
    /\ UNCHANGED <<planets, refPlanet, trade, qolScore, currentDay, gameOver, pc, upd,
                   out, zeroDiv, day0, fwd0>>

\* the timer of sleep(visPer) fires
TimerFire ==
    /\ pc \in {"fwd_imm", "fwd_sleep"}
    /\ ~fwd.overslept
    /\ fwd' = [fwd EXCEPT !.overslept = TRUE]
    /\ UNCHANGED <<planets, refPlanet, trade, qolScore, currentDay, gameOver, pc, upd,
                   out, zeroDiv, day0, fwd0>>

\* the key q while forward() awaits: the aborter
KeyQ ==
    /\ pc \in {"fwd_clear", "fwd_body", "fwd_imm", "fwd_sleep"}
    /\ ~fwd.abort
    /\ fwd' = [fwd EXCEPT !.abort = TRUE]
    /\ UNCHANGED <<planets, refPlanet, trade, qolScore, currentDay, gameOver, pc, upd,
                   out, zeroDiv, day0, fwd0>>

\* the body of the loop of update() adding the total QOL the planet had before
\* its step
UpdBody_qolBeforeStep(name, planet) ==
    /\ planets' = [planets EXCEPT ![name] = planet]
    /\ upd' = [i |-> upd.i + 1, someAlive |-> upd.someAlive \/ ~dead(planet)]
    /\ qolScore' = NAdd(qolScore, totalQol(planets[name]))

\* the body of the loop of update() taking a dead planet for a living one
UpdBody_deadAsAlive(name, planet) ==
    /\ planets' = [planets EXCEPT ![name] = planet]
    /\ upd' = [i |-> upd.i + 1, someAlive |-> upd.someAlive \/ dead(planet)]
    /\ qolScore' = NAdd(qolScore, totalQol(planet))

\* the body of the loop of update() applying the transfers after each step
UpdBody_transfersInLoop(name, planet) ==
    /\ planets' = tradeForward([planets EXCEPT ![name] = planet], trade, 1)
    /\ upd' = [i |-> upd.i + 1, someAlive |-> upd.someAlive \/ ~dead(planet)]
    /\ qolScore' = NAdd(qolScore, totalQol(planet))

\* the body of the loop of update() keeping the liveness of the planet stepped
\* last only
UpdBody_lastPlanetDecides(name, planet) ==
    /\ planets' = [planets EXCEPT ![name] = planet]
    /\ upd' = [i |-> upd.i + 1, someAlive |-> ~dead(planet)]
    /\ qolScore' = NAdd(qolScore, totalQol(planet))

\* update(): the body of the loop over the planets, for the stepped planet
UpdBody(name, planet) ==
    /\ planets' = [planets EXCEPT ![name] = planet]
    /\ upd' = [i |-> upd.i + 1, someAlive |-> upd.someAlive \/ ~dead(planet)]
    /\ qolScore' = NAdd(qolScore, totalQol(planet))

\* update(): one turn of the loop over the planets
UpdStep ==
    /\ \/ pc = "fwd_imm" /\ upd.i = 0
       \/ pc = "upd" /\ upd.i < Len(PlanetOrder)
    /\ currentDay < MaxDay
    /\ UpdBody(PlanetOrder[upd.i + 1], step(planets[PlanetOrder[upd.i + 1]]))
    /\ zeroDiv' = stepZeroDiv(planets[PlanetOrder[upd.i + 1]])
    /\ day0' = IF upd.i = 0 THEN [planets |-> planets, qolScore |-> qolScore] ELSE day0
    /\ pc' = "upd"
    /\ UNCHANGED <<refPlanet, trade, currentDay, gameOver, fwd, out, fwd0>>

\* update() stepping the reference planet along with the day
UpdTrade_advancesReference ==
    /\ pc = "upd"
    /\ upd.i = Len(PlanetOrder)
    /\ planets' = tradeForward(planets, trade, 1)
    /\ refPlanet' = step(refPlanet)
    /\ currentDay' = currentDay + 1
    /\ pc' = "upd_ret"
    /\ UNCHANGED <<trade, qolScore, gameOver, fwd, upd, out, zeroDiv, day0, fwd0>>

\* update(): the transfers, the day counter and the return
UpdTrade ==
    /\ pc = "upd"
    /\ upd.i = Len(PlanetOrder)
    /\ planets' = tradeForward(planets, trade, 1)
    /\ currentDay' = currentDay + 1
    /\ pc' = "upd_ret"
    /\ UNCHANGED <<refPlanet, trade, qolScore, gameOver, fwd, upd, out, zeroDiv, day0,
                   fwd0>>

\* forward() after update() with no return after endGame(): the loop goes on
FwdAfterUpdate_noReturn ==
    /\ pc = "upd_ret"
    /\ IF ~upd.someAlive
       THEN gameOver' = TRUE /\ out' = "game_over"
       ELSE UNCHANGED <<gameOver, out>>
    /\ fwd' = [fwd EXCEPT !.queue = @ - SCALE]
    /\ pc' = forTest(fwd')
    /\ upd' = updIdle
    /\ zeroDiv' = {}
    /\ day0' = [planets |-> planets, qolScore |-> qolScore]
    /\ UNCHANGED <<planets, refPlanet, trade, qolScore, currentDay, fwd0>>

\* forward(): after await of update(): endGame() or the next turn of the for loop
FwdAfterUpdate ==
    /\ pc = "upd_ret"
    /\ IF ~upd.someAlive
       THEN /\ gameOver' = TRUE
            /\ out' = "game_over"
            /\ pc' = "over"
            /\ fwd' = fwdIdle
       ELSE /\ fwd' = [fwd EXCEPT !.queue = @ - SCALE]
            /\ pc' = forTest(fwd')
            /\ UNCHANGED <<gameOver, out>>
    /\ upd' = updIdle
    /\ zeroDiv' = {}
    /\ day0' = [planets |-> planets, qolScore |-> qolScore]
    /\ UNCHANGED <<planets, refPlanet, trade, qolScore, currentDay, fwd0>>

Next ==
    \/ PressS
    \/ \E c \in {"", "help", "bogus"} : CmdOther(c)
    \/ \E a0 \in PlanetTokens, a1 \in PlanetTokens \cup {""} : CmdCheck(a0, a1)
    \/ \E res \in ResTokens, amt \in AmountTokens, a2 \in PlanetTokens,
          a3 \in PlanetTokens : CmdTransfer(res, amt, a2, a3)
    \/ \E tok \in DayTokens : CmdForward(tok)
    \/ FwdWhile
    \/ FwdBody
    \/ TimerFire
    \/ KeyQ
    \/ UpdStep
    \/ UpdTrade
    \/ FwdAfterUpdate

Spec == Init /\ [][Next]_vars

\* update() moves on: a turn of its loop over the planets, seen on the position
\* and the locals of update() alone
UpdStepRuns ==
    /\ \/ pc = "fwd_imm" /\ upd.i = 0
       \/ pc = "upd" /\ upd.i < Len(PlanetOrder)
    /\ currentDay < MaxDay
    /\ pc' = "upd"
    /\ \E alive \in BOOLEAN : upd' = [i |-> upd.i + 1, someAlive |-> alive]

\* update() moves on: the transfers, the day counter and the return, seen on the
\* position of update() alone
UpdTradeRuns == pc = "upd" /\ upd.i = Len(PlanetOrder) /\ pc' = "upd_ret"

\* The scheduling of the event loop: a timer that is set fires, and a
\* continuation or an immediate callback that is due runs (update() has no
\* await, so once its immediate callback is due it runs to its return).  The
\* keys and the commands of the player come under no such condition.
FairSpec ==
    /\ Spec
    /\ WF_vars(TimerFire)
    /\ WF_vars(FwdWhile)
    /\ WF_vars(FwdBody)
    /\ WF_vars(FwdAfterUpdate)
    /\ WF_<<pc, upd>>(UpdStepRuns)
    /\ WF_pc(UpdTradeRuns)

(***************************************************************************)
(* planet.ts: the methods of Planet called on their own.  PlanetInit draws *)
(* the planet the method is called on from bounded sets of populations,    *)
(* available stocks and remaining reserves; one action applies one method, *)
(* pc tells which one, and day0 keeps the planet as it was at the call.    *)
(***************************************************************************)
PopInputs == {1, 2, 5, 100}
StockInputs == {0, 2, 50}
RawInputs == {0, 25, 50}

\* the planet "earth" of the configuration, alive with population pop, holding
\* w water, f food and e energy, with rw of each reserve left
inputPlanet(pop, w, f, e, rw) ==
    [Planet("earth", setup_planets([earth |-> pop, mars |-> 0]).earth)
     EXCEPT !.available = Res(w, f, e, pop),
            !.raw = Res(rw, rw, rw, pop)]

PlanetInit ==
    /\ \E pop \in PopInputs, w \in StockInputs, f \in StockInputs, rw \in RawInputs :
          planets = [gamePlanets([earth |-> pop, mars |-> 0])
                     EXCEPT !.earth = inputPlanet(pop, w, f, w, rw)]
    /\ refPlanet = refPlanetInit
    /\ trade = <<>>
    /\ qolScore = 0
    /\ currentDay = 0
    /\ gameOver = FALSE
    /\ pc = "call"
    /\ fwd = fwdIdle
    /\ upd = updIdle
    /\ out = "intro"
    /\ zeroDiv = {}
    /\ day0 = [planets |-> planets, qolScore |-> 0]
    /\ fwd0 = fwd0Idle

\* what a call of a method of the planet "earth" leaves alone
PlanetFrame ==
    /\ day0' = [planets |-> planets, qolScore |-> qolScore]
    /\ UNCHANGED <<refPlanet, trade, qolScore, currentDay, gameOver, fwd, upd, fwd0>>

\* planet.mu(resName)
PlanetMu(resName) ==
    /\ pc = "call"
    /\ planets' = [planets EXCEPT !.earth = mu(@, resName).planet]
    /\ pc' = "mu"
    /\ out' = resName
    /\ zeroDiv' = {}
    /\ PlanetFrame

\* planet.birth()
PlanetBirth ==
    /\ pc = "call"
    /\ planets' = [planets EXCEPT !.earth = birth(@).planet]
    /\ pc' = "birth"
    /\ out' = out
    /\ zeroDiv' = {}
    /\ PlanetFrame

\* planet.step()
PlanetStep ==
    /\ pc = "call"
    /\ planets' = [planets EXCEPT !.earth = step(@)]
    /\ pc' = "step"
    /\ out' = out
    /\ zeroDiv' = stepZeroDiv(planets.earth)
    /\ PlanetFrame

PlanetNext ==
    \/ \E resName \in {"water", "food", "energy"} : PlanetMu(resName)
    \/ PlanetBirth
    \/ PlanetStep

PlanetSpec == PlanetInit /\ [][PlanetNext]_vars

(***************************************************************************)
(* transfer.ts: the ledger on its own.  TradeInit draws the positions of   *)
(* the planets from bounded sets; the actions register a transfer          *)
(* (Game.transfer), run one day of the ledger (Trade.forward, as           *)
(* Game.update calls it) and read the transfers of an ordered pair         *)
(* (Trade.getTransfer, as Game.check calls it).  pc tells the operation    *)
(* performed last, currentDay counts the days of the ledger, day0 keeps    *)
(* the planets as they were before the operation and out what check        *)
(* displays.                                                               *)
(***************************************************************************)
MaxLedger == 2
MaxForwards == 2

ThetaInputs == {0, 1}
OrbitInputs == {setup_planets([earth |-> 0, mars |-> 0])[n].distance : n \in PlanetNames}

\* the transfers a player registers: a year's amount of one resource, from or
\* to the first planet
TransferInputs ==
    {Transfer(a, b, [zeroRes EXCEPT ![r] = DaysPerYear * SCALE]) :
        a \in PlanetNames, b \in PlanetNames, r \in {"water", "population"}}
    \ {Transfer(a, a, [zeroRes EXCEPT ![r] = DaysPerYear * SCALE]) :
          a \in PlanetNames \ {PlanetOrder[1]}, r \in {"water", "population"}}

TradeInit ==
    /\ \E th \in ThetaInputs, d \in OrbitInputs :
          planets = [gamePlanets([earth |-> 3, mars |-> 2])
                     EXCEPT !.earth.info.theta = th, !.mars.info.distance = d]
    /\ refPlanet = refPlanetInit
    /\ trade = <<>>
    /\ qolScore = 0
    /\ currentDay = 0
    /\ gameOver = FALSE
    /\ pc = "call"
    /\ fwd = fwdIdle
    /\ upd = updIdle
    /\ out = Transfer("", "", zeroRes)
    /\ zeroDiv = {}
    /\ day0 = [planets |-> planets, qolScore |-> 0]
    /\ fwd0 = fwd0Idle

\* what an operation of the ledger leaves alone
TradeFrame ==
    /\ day0' = [planets |-> planets, qolScore |-> qolScore]
    /\ UNCHANGED <<refPlanet, qolScore, gameOver, fwd, upd, zeroDiv, fwd0>>

\* Game.transfer: trade.applyTransfer(new Transfer(fromP, toP, amts))
TradeApply(t) ==
    /\ Len(trade) < MaxLedger
    /\ trade' = applyTransfer(trade, t)
    /\ pc' = "apply"
    /\ UNCHANGED <<planets, currentDay, out>>
    /\ TradeFrame

\* Game.update: this.trade.forward()
TradeForward ==
    /\ currentDay < MaxForwards
    /\ planets' = tradeForward(planets, trade, 1)
    /\ currentDay' = currentDay + 1
    /\ pc' = "forward"
    /\ UNCHANGED <<trade, out>>
    /\ TradeFrame

\* Game.check: this.trade.getTransfer(planet, planetTo), displayed
TradeGet(a, b) ==
    /\ out' = Transfer(a, b, getTransfer(trade, a, b))
    /\ pc' = "get"
    /\ UNCHANGED <<planets, trade, currentDay>>
    /\ TradeFrame

TradeNext ==
    \/ \E t \in TransferInputs : TradeApply(t)
    \/ TradeForward
    \/ \E a \in PlanetNames, b \in PlanetNames : TradeGet(a, b)

TradeSpec == TradeInit /\ [][TradeNext]_vars

(***************************************************************************)
(* The claims.                                                             *)
(***************************************************************************)
\* a >= b: false when either side is NaN
NGe(a, b) == a # NaN /\ b # NaN /\ a >= b

Consumables == {"water", "food", "energy"}

\* the planet update() stepped last
lastStepped == planets[PlanetOrder[upd.i]]

\* C1: right after step() returns, the stepped planet has available water,
\* food and energy >= 0 and, for each of them, 0 <= raw <= initial endowment.
C1_StepKeepsResourcesInBounds ==
    pc = "upd" =>
        \A r \in Consumables :
            /\ NGe(lastStepped.available[r], 0)
            /\ NGe(lastStepped.raw[r], 0)
            /\ NGe(lastStepped.info.initResources[r], lastStepped.raw[r])

\* C2: a step() of a planet whose population is 0 leaves the planet as it was.
C2_DeadPlanetFrozen ==
    [][\A k \in DOMAIN PlanetOrder :
          (pc' = "upd" /\ upd.i = k - 1 /\ upd'.i = k /\ dead(planets[PlanetOrder[k]]))
              => planets'[PlanetOrder[k]] = planets[PlanetOrder[k]]]_vars

\* C2, witness: a planet that was dead before update() stepped it has just been
\* stepped, on a day after the first (a step that found the planet alive and
\* left it dead has divided by zero, so zeroDiv = {} tells the planet was dead).
C2_Witness ==
    /\ pc = "upd"
    /\ currentDay >= 1
    /\ dead(lastStepped)
    /\ dead(day0.planets[PlanetOrder[upd.i]])
    /\ zeroDiv = {}

\* C3: available[r] >= 0 for every resource of every planet in every state.
C3_AvailableNonNegative ==
    \A n \in PlanetNames : \A r \in DOMAIN zeroRes : NGe(planets[n].available[r], 0)

\* C4: update() returns true exactly when some planet has a non-zero population
\* when the day completes, after the steps and the ledger's forward().
C4_UpdateReturnsLivenessAtEndOfDay ==
    pc = "upd_ret" =>
        (upd.someAlive <=> \E n \in PlanetNames : planets[n].available.population # 0)

\* a transfer of the ledger names the planet n
namedInTrade(n) == \E i \in DOMAIN trade : trade[i].from = n \/ trade[i].to = n

RECURSIVE sumLivingQol(_, _)
\* the sum of totalQol over the living planets of ps from index i on
sumLivingQol(ps, i) ==
    IF i > Len(PlanetOrder) THEN 0
    ELSE NAdd(IF dead(ps[PlanetOrder[i]]) THEN 0 ELSE totalQol(ps[PlanetOrder[i]]),
              sumLivingQol(ps, i + 1))

\* what update() has done once every planet is stepped: it reports a living
\* planet, and qolScore has grown by the living planets' totalQol
stepsDone ==
    (pc = "upd" /\ upd.i = Len(PlanetOrder)) =>
        /\ (\E n \in PlanetNames : ~dead(planets[n])) => upd.someAlive
        /\ qolScore = NAdd(day0.qolScore, sumLivingQol(planets, 1))

\* C5 as stated: in one update() every planet that was dead when it began is
\* unchanged when it returns, update() returns true when a living planet
\* remains, and qolScore grows by the sum of the living planets' totalQol.
C5_DeadPlanetsUnchangedByUpdate ==
    /\ pc \in {"upd", "upd_ret"} =>
          \A n \in PlanetNames :
              dead(day0.planets[n]) => planets[n] = day0.planets[n]
    /\ stepsDone

\* C5, amended: a planet that was dead when update() began is unchanged by the
\* steps; when update() returns its raw, rate, info and qolRate are unchanged
\* and its available is unchanged unless a registered transfer names it;
\* update() returns true when a planet is alive after its step; qolScore grows
\* by the sum of the totalQol the living planets have right after the steps.
C5_DeadPlanetsChangedOnlyByTransfers ==
    /\ pc \in {"upd", "upd_ret"} =>
          \A n \in PlanetNames :
              dead(day0.planets[n]) =>
                  /\ planets[n].raw = day0.planets[n].raw
                  /\ planets[n].rate = day0.planets[n].rate
                  /\ planets[n].info = day0.planets[n].info
                  /\ planets[n].qolRate = day0.planets[n].qolRate
                  /\ (pc = "upd" \/ ~namedInTrade(n)) => planets[n] = day0.planets[n]
    /\ stepsDone

\* C5, witness: an update() over a living and a dead planet has returned true.
C5_Witness ==
    /\ pc = "upd_ret"
    /\ upd.someAlive
    /\ \E n \in PlanetNames : dead(day0.planets[n])
    /\ \E n \in PlanetNames : ~dead(day0.planets[n])

\* C6 as stated: forward(N) called on an all-dead system reports liveness false
\* on the first simulated day, and when it is over currentDay has advanced by N.
C6_AllDeadAdvancesByN ==
    /\ (pc = "upd_ret" /\ fwd0.allDead /\ currentDay = fwd0.startDay + 1)
          => ~upd.someAlive
    /\ (pc = "over" /\ fwd0.allDead)
          => currentDay * SCALE = fwd0.startDay * SCALE + fwd0.dps

\* C6, amended: forward() called on an all-dead system reports liveness false on
\* the first simulated day and the game ends there: currentDay has advanced by
\* exactly 1, whatever the number given, and no second day is simulated.
C6_AllDeadAdvancesByOne ==
    /\ (pc = "upd_ret" /\ fwd0.allDead)
          => (~upd.someAlive /\ currentDay = fwd0.startDay + 1)
    /\ (pc = "over" /\ fwd0.allDead) => currentDay = fwd0.startDay + 1

\* C6, witness: a forward() called on an all-dead system has ended the game.
C6_Witness == pc = "over" /\ fwd0.allDead /\ gameOver

\* C7: the game is over exactly from the moment update() reports false; once
\* gameOver is true it stays true, and the day counter, the score, the planets,
\* the ledger and the position of the program no longer change.
C7_GameOverIsTerminal ==
    [][/\ gameOver => (gameOver' /\ UNCHANGED <<planets, trade, qolScore, currentDay,
                                               pc, out>>)
       /\ (gameOver' /\ ~gameOver) => (pc = "upd_ret" /\ ~upd.someAlive)
       /\ (pc = "upd_ret" /\ ~upd.someAlive) => (gameOver' /\ pc' = "over")]_vars

\* C7, witness: the game is over.
C7_Witness == gameOver /\ pc = "over" /\ currentDay >= 1

\* C8: a forward command with a day count <= 0 is rejected with an error: the
\* fast-forward does not become active and the simulation state is unchanged.
C8_NonPositiveForwardRejected ==
    [][\A tok \in DayTokens :
          (CmdForward(tok) /\ NumberOf(tok) # NaN /\ ~NLt(0, NumberOf(tok)))
              => /\ out' = "out_of_bounds"
                 /\ pc' # "fwd_clear"
                 /\ UNCHANGED <<planets, trade, qolScore, currentDay>>]_vars

\* C9: a command with an unknown planet name, an unknown resource name or an
\* amount that is not a number is reported, registers no transfer, changes no
\* planet and leaves the game at its prompt.
C9_InvalidCommandChangesNothing ==
    [][/\ \A res \in ResTokens, amt \in AmountTokens, a2 \in PlanetTokens,
             a3 \in PlanetTokens :
             (/\ CmdTransfer(res, amt, a2, a3)
              /\ \/ res \notin DOMAIN refStd
                 \/ NumberOf(amt) = NaN
                 \/ a2 \notin PlanetNames
                 \/ a3 \notin PlanetNames)
                 => /\ out' \in {"list_resources", "list_planets", "not_a_number"}
                    /\ UNCHANGED <<planets, trade, qolScore, currentDay, pc>>
       /\ \A a0 \in PlanetTokens, a1 \in PlanetTokens \cup {""} :
             (/\ CmdCheck(a0, a1)
              /\ (a0 \notin PlanetNames \/ (a1 # "" /\ a1 \notin PlanetNames)))
                 => /\ out' = "list_planets"
                    /\ UNCHANGED <<planets, trade, qolScore, currentDay, pc>>
       /\ \A tok \in DayTokens :
             (CmdForward(tok) /\ NumberOf(tok) = NaN)
                 => /\ out' = "not_a_number"
                    /\ UNCHANGED <<planets, trade, qolScore, currentDay, pc>>]_vars

\* C10: a step() performs no division by zero: the per-capita getters are not
\* read with population 0 and the old total QOL it divides by is not 0.
C10_StepNeverDividesByZero == zeroDiv = {}

\* the planet a method was called on by PlanetSpec, as it was at the call
called == day0.planets.earth

\* round((p - 1) * (1 + r))
birthFormula(p, r) == NRound(NMul(NSub(p, SCALE), NAdd(SCALE, r)))

\* C11: birth() called on a planet with population p whose birth rate at the
\* time of the call is r leaves the population round((p - 1) * (1 + r)).
C11_BirthUsesRateAtCall ==
    pc = "birth" =>
        planets.earth.available.population
            = birthFormula(called.available.population, birthRate(called))

\* the reference planet's per-capita amount of a resource
refPerCapita(resName) ==
    IF resName = "water" THEN waterPerCapita(refPlanet)
    ELSE IF resName = "food" THEN foodPerCapita(refPlanet)
    ELSE energyPerCapita(refPlanet)

\* the required consumption of a resource as specified: the population times
\* the reference planet's per-capita amount of that resource
requiredConsumption(p, resName) == NMul(p.available.population, refPerCapita(resName))

\* mu(resName) for a given required consumption
muRequiring(p, resName, req) ==
    muWith(p, resName, req,
           NMin(p.raw[resName],
                NMul(NMul(req, SCALE + gainFactor), abundance(p, resName))))

\* C17: mu(resource) consumes the population times the reference planet's
\* per-capita amount of that same resource (water, food or energy).
C17_MuUsesSameResourceReference ==
    pc = "mu" =>
        planets.earth = muRequiring(called, out, requiredConsumption(called, out)).planet

\* C12: mu(resource) on a planet whose raw reserve of the resource is 0 extracts
\* nothing (raw stays 0) and lowers available[resource] by exactly the required
\* consumption, clamped at 0.
C12_MuOnEmptyReserve ==
    (pc = "mu" /\ called.raw[out] = 0) =>
        /\ planets.earth.raw[out] = 0
        /\ planets.earth.available[out]
              = NMax(0, NSub(called.available[out], requiredConsumption(called, out)))

\* C13: for every planet and each of water, food and energy, abundance =
\* raw / initial never increases from one state to the next and stays in [0, 1].
C13_AbundanceNeverIncreases ==
    [][\A n \in PlanetNames : \A r \in Consumables :
          /\ NGe(abundance(planets[n], r), abundance(planets'[n], r))
          /\ NGe(abundance(planets'[n], r), 0)
          /\ NGe(SCALE, abundance(planets'[n], r))]_vars

\* the planets as they were before the last operation of the ledger
before == day0.planets

\* annualAmount / 365 of a resource of a transfer
perDay(t, r) == NDivInt(t.amts[r], DaysPerYear)

\* the distance-proportional loss of one day of a transfer, for planets ps
lossPerDay(ps, t, r) ==
    NMulRaw(perDay(t, r), transferFactor * distance(ps[t.from], ps[t.to]), MICRO)

\* one forward() of a ledger holding the single transfer t, from planets ps
\* to planets qs
movedOnce(ps, qs, t) ==
    /\ \A n \in PlanetNames : qs[n] = [ps[n] EXCEPT !.available = qs[n].available]
    /\ \A n \in PlanetNames \ {t.from, t.to} : qs[n] = ps[n]
    /\ \A r \in DOMAIN zeroRes :
          IF t.from = t.to
          THEN qs[t.from].available[r] = ps[t.from].available[r]
          ELSE /\ qs[t.from].available[r] = NSub(ps[t.from].available[r], perDay(t, r))
               /\ qs[t.to].available[r]
                     = NSub(NAdd(ps[t.to].available[r], perDay(t, r)), lossPerDay(ps, t, r))
               /\ (distance(ps[t.from], ps[t.to]) = 0 /\ t.amts[r] = DaysPerYear * SCALE)
                     => qs[t.to].available[r] = ps[t.to].available[r] + SCALE

\* C14: one forward() of the ledger removes annualAmount / 365 of each resource
\* of a registered transfer from the source's available and adds that amount
\* less the distance-proportional loss to the destination's; the loss is not
\* credited back to the source; at distance 0 a transfer of 365 water a year
\* moves exactly 1 water.
C14_ForwardMovesDailyAmountLessLoss ==
    (pc = "forward" /\ Len(trade) = 1) => movedOnce(before, planets, trade[1])

\* C14, witness: a forward() has moved a transfer between two planets that are
\* apart, with a loss.
C14_Witness ==
    /\ pc = "forward"
    /\ Len(trade) = 1
    /\ trade[1].from # trade[1].to
    /\ lossPerDay(before, trade[1], "water") > 0
    /\ planets[trade[1].to].available.water > before[trade[1].to].available.water

RECURSIVE totalOver(_, _, _)
\* the sum of the amounts of resource r over the entries idx of a ledger
totalOver(ledger, idx, r) ==
    IF idx = {} THEN 0
    ELSE LET i == CHOOSE k \in idx : TRUE
         IN  NAdd(ledger[i].amts[r], totalOver(ledger, idx \ {i}, r))

\* the entries of a ledger registered for exactly the ordered pair (a, b)
entriesOf(ledger, a, b) ==
    {i \in DOMAIN ledger : ledger[i].from = a /\ ledger[i].to = b}

\* C15: registering a transfer always adds an entry to the ledger, also when an
\* equal transfer is registered already; two equal entries both execute in a
\* forward(); getTransfer(a, b) returns the sum of the entries registered for
\* exactly the ordered pair (a, b) and changes neither the ledger nor a planet.
C15_RegistrationIsAdditive ==
    [][/\ pc' = "apply" =>
             /\ Len(trade') = Len(trade) + 1
             /\ SubSeq(trade', 1, Len(trade)) = trade
             /\ trade'[Len(trade')] \in TransferInputs
       /\ (pc' = "forward" /\ Len(trade) = 2 /\ trade[1] = trade[2]) =>
             \E mid \in {tradeForward(planets, <<trade[1]>>, 1)} :
                 /\ movedOnce(planets, mid, trade[1])
                 /\ movedOnce(mid, planets', trade[2])
       /\ pc' = "get" =>
             /\ \A r \in DOMAIN zeroRes :
                   out'.amts[r] = totalOver(trade, entriesOf(trade, out'.from, out'.to), r)
             /\ UNCHANGED <<planets, trade>>]_vars

\* C15, witness: the same transfer between two planets is registered twice and
\* a forward() has run both entries.
C15_Witness ==
    /\ pc = "forward"
    /\ Len(trade) = 2
    /\ trade[1] = trade[2]
    /\ trade[1].from # trade[1].to
    /\ planets[trade[1].from].available.water
          = before[trade[1].from].available.water - 2 * SCALE

\* C16: in update() the step of every planet is done before a transfer is
\* applied: a step changes the stepped planet only, to what step() makes of it,
\* and the ledger's forward() runs once, after the last planet's step, in the
\* part of update() that increments the day counter.
C16_StepsBeforeTransfers ==
    [][/\ pc' = "upd" =>
             /\ upd'.i = upd.i + 1
             /\ planets' = [planets EXCEPT ![PlanetOrder[upd'.i]] = step(@)]
             /\ currentDay' = currentDay
       /\ pc' = "upd_ret" =>
             /\ pc = "upd"
             /\ upd.i = Len(PlanetOrder)
             /\ planets' = tradeForward(planets, trade, 1)
             /\ currentDay' = currentDay + 1
       /\ pc' \notin {"upd", "upd_ret"} => UNCHANGED <<planets, currentDay>>]_vars

\* C16, witness: a day with a registered transfer is complete: every planet was
\* stepped and the transfer then changed a planet.
C16_Witness ==
    /\ pc = "upd_ret"
    /\ upd.i = Len(PlanetOrder)
    /\ Len(trade) = 1
    /\ trade[1].from # trade[1].to
    /\ \E n \in PlanetNames : ~dead(day0.planets[n])
    /\ \E r \in DOMAIN zeroRes : IsFinite(trade[1].amts[r]) /\ trade[1].amts[r] > 0

\* the orders in which update() can iterate over the planets
Orders ==
    {o \in [DOMAIN PlanetOrder -> PlanetNames] :
        \A i \in DOMAIN PlanetOrder : \A j \in DOMAIN PlanetOrder : o[i] = o[j] => i = j}

RECURSIVE scoreIn(_, _, _, _)
\* the score q after adding, in the order o from index i on, the total QOL each
\* planet of ps has after its step
scoreIn(ps, q, o, i) ==
    IF i > Len(o) THEN q
    ELSE scoreIn(ps, NAdd(q, totalQol(step(ps[o[i]]))), o, i + 1)

RECURSIVE aliveIn(_, _, _)
\* the liveness flag after the planets of ps are stepped in the order o from i on
aliveIn(ps, o, i) ==
    IF i > Len(o) THEN FALSE ELSE (~dead(step(ps[o[i]])) \/ aliveIn(ps, o, i + 1))

\* the result of one day from the planets ps and the score q, iterating in the
\* order o
dayIn(ps, q, o) ==
    [planets |-> tradeForward([n \in PlanetNames |-> step(ps[n])], trade, 1),
     qolScore |-> scoreIn(ps, q, o, 1),
     someAlive |-> aliveIn(ps, o, 1)]

C19_DaysAreAtomicAndSequential ==
    [][/\ pc = "upd" =>
             /\ pc' \in {"upd", "upd_ret"}
             /\ UNCHANGED <<trade, gameOver, fwd, out, fwd0>>
       /\ (pc' = "upd" /\ pc # "upd") => (pc = "fwd_imm" /\ upd = updIdle)
       /\ pc = "upd_ret" =>
             /\ pc' \in {"fwd_imm", "fwd_sleep", "over"}
             /\ upd' = updIdle
             /\ UNCHANGED <<planets, trade, qolScore, currentDay>>]_vars

\* C19, witness: the second day of a fast-forward is in progress, one planet
\* stepped, while the key q and the timer are still to come.
C19_Witness ==
    /\ pc = "upd"
    /\ upd.i = 1
    /\ currentDay >= 1
    /\ ~fwd.abort
    /\ ~fwd.overslept

\* forward() has left its loop: the game is back at its prompt or over
stopped == pc \in {"prompt", "over"}

\* the fast-forward stands where a bound of the model stops it
atBound ==
    \/ pc = "fwd_imm" /\ currentDay = MaxDay
    \/ pc = "fwd_body" /\ fwd.queue <= 0 - MaxIdle * SCALE

\* forward() returns between two days: no update() is in progress and the
\* planets are as the last completed day left them
wholeDays ==
    [][(pc' = "prompt" /\ pc \notin {"start", "prompt"}) =>
          /\ upd = updIdle
          /\ planets = day0.planets
          /\ UNCHANGED <<planets, qolScore, currentDay, trade>>]_vars

\* C20 as stated: after q the loop of forward() eventually stops, no further
\* day is simulated once the abort is requested, and the state left is that of
\* a whole number of completed days.
C20_NoDayAfterAbort ==
    /\ fwd.abort ~> (stopped \/ atBound)
    /\ [][fwd.abort => (pc' # "upd" /\ UNCHANGED <<planets, qolScore, currentDay>>)]_vars
    /\ wholeDays

\* What forward() does after q (C20): the loop eventually stops; the abort is
\* looked at only at the test of the while loop, so the refresh period under way
\* is finished (its queued days are simulated until the queue is empty or the
\* period's timer has fired) but no further period is begun; the state left is
\* that of a whole number of completed days.
C20_CancelStopsAtNextLoopTest ==
    /\ fwd.abort ~> (stopped \/ atBound)
    /\ [][/\ (fwd.abort /\ pc \in {"fwd_clear", "fwd_sleep"} /\ pc' # pc)
                => pc' = "prompt"
          /\ (pc' = "fwd_body" /\ pc # "fwd_body") => ~fwd.abort
          /\ (fwd.abort /\ pc' = "upd" /\ pc # "upd") => pc = "fwd_imm"
          /\ (fwd.abort /\ pc' = "fwd_imm" /\ pc # "fwd_imm")
                => (fwd'.queue >= SCALE /\ ~fwd'.overslept)]_vars
    /\ wholeDays

\* C20, witness: a fast-forward that simulated a day was cancelled and the game
\* is back at its prompt.
C20_Witness == pc = "prompt" /\ currentDay >= 1 /\ ~gameOver /\ fwd = fwdIdle

(***************************************************************************)
(* C21: the planets at game start.                                         *)
(***************************************************************************)
\* the game has started no day yet: nothing but update() changes a planet
atGameStart == currentDay = 0 /\ pc # "upd"

\* the "available" the constructor of Planet gives a planet
constructed(p) == [zeroRes EXCEPT !.population = p.info.initResources.population]

\* the populations the planets were configured with
startPops == [n \in PlanetNames |-> planets[n].info.initResources.population \div SCALE]

\* C21 as stated: at game start every planet has raw equal to its initial
\* endowment, available water, food and energy equal to 0, and
\* available.population equal to its initial population.
C21_AllPlanetsStartEmpty ==
    atGameStart =>
        \A n \in PlanetNames :
            /\ planets[n].raw = planets[n].info.initResources
            /\ planets[n].available = constructed(planets[n])

\* C21, amended: at game start every planet has raw equal to its initial
\* endowment; every planet other than Earth has available water, food and
\* energy equal to 0 and available.population equal to its initial population;
\* Earth's available is a copy of setup.earthAvailable.
C21_AllButEarthStartEmpty ==
    atGameStart =>
        \A n \in PlanetNames :
            /\ planets[n].raw = planets[n].info.initResources
            /\ planets[n].info = setup_planets(startPops)[n]
            /\ n # "earth" => planets[n].available = constructed(planets[n])
            /\ n = "earth" => planets[n].available = earthAvailable(startPops)

\* C21, witness: the game stands at its prompt before the first day, with a
\* transfer registered and both planets populated.
C21_Witness ==
    /\ atGameStart
    /\ pc = "prompt"
    /\ trade # <<>>
    /\ \A n \in PlanetNames : planets[n].available.population > 0

(***************************************************************************)
(* C22: the reference planet.                                              *)
(***************************************************************************)
\* the per-capita baselines the formulas of every planet read
baselines(ref) ==
    [water |-> waterPerCapita(ref), food |-> foodPerCapita(ref),
     qol |-> qolPerCapita(ref)]

\* C22: the reference planet is never advanced or modified by a game
\* operation: after any sequence of commands, day updates and transfers its
\* raw, available and orbital state are those of its construction, and the
\* per-capita baselines every planet uses are constant for the whole game.
C22_ReferencePlanetIsConstant ==
    /\ refPlanet.raw = refStd
    /\ refPlanet.available = refStd
    /\ refPlanet.info = refPlanetInit.info
    /\ refPlanet.rate = zeroRes
    /\ baselines(refPlanet) = baselines(refPlanetInit)

\* C22, witness: days were simulated with a transfer registered, the planets
\* changed, and the game is back at its prompt.
C22_Witness ==
    /\ pc = "prompt"
    /\ currentDay >= 2
    /\ trade # <<>>
    /\ \E n \in PlanetNames : planets[n].raw # planets[n].info.initResources

(***************************************************************************)
(* C23: the population after step().                                       *)
(***************************************************************************)
\* a non-negative integer
isCount(a) == IsFinite(a) /\ a >= 0 /\ a % SCALE = 0

\* the planet update() has just stepped, and that planet before the day
stepped == PlanetOrder[upd.i]
beforeStep == day0.planets[stepped]
afterStep == pc = "upd" /\ upd.i >= 1

\* the stocks and reserves of water, food and energy are numbers
finiteStocks(p) ==
    \A r \in {"water", "food", "energy"} : IsFinite(p.available[r]) /\ IsFinite(p.raw[r])

\* C23: starting from a non-negative integer population, every step() leaves
\* available.population a non-negative integer, and a population of 1 always
\* becomes 0 after one step, so that the planet is dead from the next day on.
C23_PopulationStaysACount ==
    (afterStep /\ isCount(beforeStep.available.population)) =>
        /\ isCount(planets[stepped].available.population)
        /\ beforeStep.available.population = SCALE =>
              /\ dead(planets[stepped])
              /\ step(planets[stepped]) = planets[stepped]

\* What holds of step() (C23): the population stays a non-negative integer
\* when the planet's stocks and reserves are numbers.
C23_CountKeptOnFiniteStocks ==
    (afterStep /\ isCount(beforeStep.available.population) /\ finiteStocks(beforeStep)) =>
        isCount(planets[stepped].available.population)

====
